---------------------------- MODULE Spec2Model ----------------------------
(***************************************************************************)
(* ContinuousDoorsEnv (minigrid/envs/continuousdoors.py): the layout       *)
(* generator _gen_grid, the milestone tracker in step, and reset.          *)
(*                                                                         *)
(* The grid framework (MiniGridEnv.step / reset / place_obj / place_agent, *)
(* Grid, Door, Key, Goal) is not part of the source file; it is modelled   *)
(* from its contract: a tile grid, an agent with a position, a direction   *)
(* and at most one carried object, and the seven actions left, right,      *)
(* forward, pickup, drop, toggle, done.                                    *)
(*                                                                         *)
(* A reward is kept as a count of tenths plus a mark for the framework's    *)
(* success formula 1 - 0.9 * (step_count / max_steps): the framework's      *)
(* default 0, the literal 0.1 of the tracker and the success reward are     *)
(* three distinct values (in binary floating point 1 - y is never the       *)
(* literal 0.1).                                                            *)
(***************************************************************************)
EXTENDS Integers, Sequences, FiniteSets, TLC

(* __init__(size=8): the registered 8x8 configuration's width.             *)
width == 8

(* The height handed to _gen_grid(width, height), which takes it apart     *)
(* from the width: the smallest height whose left region holds the agent   *)
(* and both keys.                                                          *)
height == 5

(* The max_steps argument of __init__.                                     *)
max_steps == 3

VARIABLES
    grid,                  \* self.grid: cell -> world object
    agent_pos,             \* self.agent_pos
    agent_dir,             \* self.agent_dir
    carrying,              \* self.carrying
    step_count,            \* self.step_count, counted up to max_steps
    unlocked_achievement,  \* self.unlocked_achievement: the positions it maps to True
    yellow_key_pos,        \* self.yellow_key_pos
    red_key_pos,           \* self.red_key_pos
    first_yellow_door_pos, \* self.first_yellow_door_pos
    first_red_door_pos,    \* self.first_red_door_pos
    last_call,             \* the last call: "init", "reset", "step",
                           \* "raised" for a step that raised an exception,
                           \* "edit" for a test's write to the grid,
                           \* "reset_assert", "reset_value", "reset_hang" for
                           \* a reset that did not return
    base,                  \* what super().step(action) last returned to step
    ret                    \* what step last returned to its caller

vars == <<grid, agent_pos, agent_dir, carrying, step_count,
          unlocked_achievement, yellow_key_pos, red_key_pos,
          first_yellow_door_pos, first_red_door_pos, last_call, base, ret>>

-----------------------------------------------------------------------------
(* World objects.  Only a door has is_open and is_locked. *)

Cells == (0 .. width - 1) \X (0 .. height - 1)

NoPos == <<-1, -1>>

(* An empty cell, and "carrying nothing". *)
None == [type |-> "none"]

Wall == [type |-> "wall"]

Goal == [type |-> "goal"]

Key(c) == [type |-> "key", color |-> c]

Door(c, locked) ==
    [type |-> "door", color |-> c, is_open |-> FALSE, is_locked |-> locked]

(* A reward is tenths * 0.1, plus the framework's success formula          *)
(* 1 - 0.9 * (step_count / max_steps) when success is set.                 *)
RewardZero == [success |-> FALSE, tenths |-> 0]

RewardBonus == [success |-> FALSE, tenths |-> 1]

RewardSuccess == [success |-> TRUE, tenths |-> 0]

(* The info dict is a function from its keys to their values. *)
EmptyInfo == [k \in {} |-> 0]

NoReturn == [obs |-> [image |-> None, direction |-> -1], reward |-> RewardZero,
             terminated |-> FALSE, truncated |-> FALSE, info |-> EmptyInfo]

-----------------------------------------------------------------------------
(* Grid primitives of the framework *)

(* Grid(w, h): every cell empty. *)
Grid(w, h) == [c \in (0 .. w - 1) \X (0 .. h - 1) |-> None]

(* The grid __init__ leaves: Grid(width, height). *)
EmptyGrid == Grid(width, height)

(* grid.width and grid.height. *)
GridWidth(g) == Cardinality({c[1] : c \in DOMAIN g})

GridHeight(g) == Cardinality({c[2] : c \in DOMAIN g})

(* Grid.set / put_obj. *)
PutObj(g, obj, x, y) == [g EXCEPT ![<<x, y>>] = obj]

(* Grid.vert_wall(x, 0): the whole column x. *)
VertWall(g, x, h) == [c \in DOMAIN g |-> IF c[1] = x /\ c[2] \in 0 .. h - 1 THEN Wall ELSE g[c]]

(* Grid.horz_wall(0, y): the whole row y. *)
HorzWall(g, y, w) == [c \in DOMAIN g |-> IF c[2] = y /\ c[1] \in 0 .. w - 1 THEN Wall ELSE g[c]]

(* Grid.wall_rect(0, 0, w, h). *)
WallRect(g, w, h) ==
    VertWall(VertWall(HorzWall(HorzWall(g, 0, w), h - 1, w), 0, h), w - 1, h)

(* The rectangle place_obj samples for top = (0, 0), size = (sx, sy). *)
Region(sx, sy) == (0 .. sx - 1) \X (0 .. sy - 1)

(* The cells place_obj may return: in the rectangle, empty, and not the    *)
(* agent's cell.                                                           *)
PlaceCells(g, sx, sy, apos) ==
    {c \in Region(sx, sy) : g[c] = None /\ c # apos}

-----------------------------------------------------------------------------
(* _gen_grid *)

splitIdx(w) == 2 + (w - 8) \div 2

(* The goal put one column further left, where the last wall column of   *)
(* the narrowest grid runs.                                                *)
GenBorderGoalLeft(w, h) == PutObj(WallRect(Grid(w, h), w, h), Goal, w - 3, h - 2)

(* The border and the goal: the grid when the width is asserted even. *)
GenBorder(w, h) == PutObj(WallRect(Grid(w, h), w, h), Goal, w - 2, h - 2)

(* The border, the goal and the four wall columns: the grid place_agent sees. *)
GenWalls(w, h) ==
    LET g1 == GenBorder(w, h)
        g2 == VertWall(g1, splitIdx(w), h)
        g3 == VertWall(g2, splitIdx(w) + 1, h)
        g4 == VertWall(g3, splitIdx(w) + 2, h)
    IN  VertWall(g4, splitIdx(w) + 3, h)

(* The red door left unlocked. *)
GenDoorsRedUnlocked(g, w, doorIdx) ==
    LET g1 == PutObj(g, Door("yellow", TRUE), splitIdx(w), doorIdx)
        g2 == PutObj(g1, Door("yellow", TRUE), splitIdx(w) + 1, doorIdx)
        g3 == PutObj(g2, Door("red", FALSE), splitIdx(w) + 2, doorIdx)
    IN  PutObj(g3, Door("yellow", TRUE), splitIdx(w) + 3, doorIdx)

(* The first yellow door left unlocked. *)
GenDoorsFirstUnlocked(g, w, doorIdx) ==
    LET g1 == PutObj(g, Door("yellow", FALSE), splitIdx(w), doorIdx)
        g2 == PutObj(g1, Door("yellow", TRUE), splitIdx(w) + 1, doorIdx)
        g3 == PutObj(g2, Door("red", TRUE), splitIdx(w) + 2, doorIdx)
    IN  PutObj(g3, Door("yellow", TRUE), splitIdx(w) + 3, doorIdx)

(* The four locked doors of row doorIdx. *)
GenDoors(g, w, doorIdx) ==
    LET g1 == PutObj(g, Door("yellow", TRUE), splitIdx(w), doorIdx)
        g2 == PutObj(g1, Door("yellow", TRUE), splitIdx(w) + 1, doorIdx)
        g3 == PutObj(g2, Door("red", TRUE), splitIdx(w) + 2, doorIdx)
    IN  PutObj(g3, Door("yellow", TRUE), splitIdx(w) + 3, doorIdx)

(* The cached position one row below the door. *)
FirstYellowDoorPosBelow(w, doorIdx) == <<splitIdx(w), doorIdx + 1>>

FirstYellowDoorPos(w, doorIdx) == <<splitIdx(w), doorIdx>>

(* The cached position one column short: the second yellow door. *)
FirstRedDoorPosSecond(w, doorIdx) == <<splitIdx(w) + 1, doorIdx>>

FirstRedDoorPos(w, doorIdx) == <<splitIdx(w) + 2, doorIdx>>

(* _rand_int taken to include its upper end. *)
DoorRowsInclusive(h) == 1 .. h - 2

(* The values _rand_int(1, height - 2) can return. *)
DoorRows(h) == 1 .. h - 3

(* The grid once the yellow key is placed on ykpos. *)
GenYellowKey(w, h, doorIdx, ykpos) ==
    PutObj(GenDoors(GenWalls(w, h), w, doorIdx), Key("yellow"), ykpos[1], ykpos[2])

(* The keys placed with size = (width, height): anywhere on the grid. *)
DrawsAnywhere(w, h) ==
    {d \in [apos : Region(splitIdx(w), h), adir : 0 .. 3, doorIdx : DoorRows(h),
            ykpos : Region(w, h), rkpos : Region(w, h)] :
        /\ d.apos \in PlaceCells(GenWalls(w, h), splitIdx(w), h, NoPos)
        /\ d.ykpos \in PlaceCells(GenDoors(GenWalls(w, h), w, d.doorIdx),
                                  w, h, d.apos)
        /\ d.rkpos \in PlaceCells(GenYellowKey(w, h, d.doorIdx, d.ykpos),
                                  w, h, d.apos)}

(* The draws of the random generator _gen_grid can make: the agent is      *)
(* placed before the doors, the keys after them, each on an empty cell of  *)
(* the left region that is not the agent's.                                *)
Draws(w, h) ==
    {d \in [apos : Region(splitIdx(w), h), adir : 0 .. 3, doorIdx : DoorRows(h),
            ykpos : Region(splitIdx(w), h), rkpos : Region(splitIdx(w), h)] :
        /\ d.apos \in PlaceCells(GenWalls(w, h), splitIdx(w), h, NoPos)
        /\ d.ykpos \in PlaceCells(GenDoors(GenWalls(w, h), w, d.doorIdx),
                                  splitIdx(w), h, d.apos)
        /\ d.rkpos \in PlaceCells(GenYellowKey(w, h, d.doorIdx, d.ykpos),
                                  splitIdx(w), h, d.apos)}

(* _gen_grid(w, h): the layouts it can leave, one for every draw; none     *)
(* when the assertion on the width fails.                                   *)
GenGrid(w, h) ==
    IF w % 2 # 0 THEN {}
    ELSE {[grid |-> PutObj(GenYellowKey(w, h, d.doorIdx, d.ykpos),
                           Key("red"), d.rkpos[1], d.rkpos[2]),
           agent_pos |-> d.apos,
           agent_dir |-> d.adir,
           first_yellow_door_pos |-> FirstYellowDoorPos(w, d.doorIdx),
           first_red_door_pos |-> FirstRedDoorPos(w, d.doorIdx),
           yellow_key_pos |-> d.ykpos,
           red_key_pos |-> d.rkpos] : d \in Draws(w, h)}

(* The layouts of the configured size. *)
Layouts == GenGrid(width, height)

-----------------------------------------------------------------------------
(* The framework's step *)

left == 0
right == 1
forward == 2
pickup == 3
drop == 4
toggle == 5
done == 6

Actions == {left, right, forward, pickup, drop, toggle, done}

(* DIR_TO_VEC: 0 east, 1 south, 2 west, 3 north. *)
DirVec(d) == CASE d = 0 -> <<1, 0>>
               [] d = 1 -> <<0, 1>>
               [] d = 2 -> <<-1, 0>>
               [] OTHER -> <<0, -1>>

(* front_pos *)
FrontPos(pos, d) == <<pos[1] + DirVec(d)[1], pos[2] + DirVec(d)[2]>>

CanOverlap(obj) == obj.type = "goal" \/ (obj.type = "door" /\ obj.is_open)

CanPickup(obj) == obj.type = "key"

(* Door.toggle: a locked door opens for a carried key of its colour and   *)
(* stays as it is otherwise; an unlocked door flips between open and shut. *)
ToggleObj(obj, held) ==
    IF obj.type # "door" THEN obj
    ELSE IF obj.is_locked
         THEN IF held.type = "key" /\ held.color = obj.color
              THEN [obj EXCEPT !.is_locked = FALSE, !.is_open = TRUE]
              ELSE obj
         ELSE [obj EXCEPT !.is_open = ~obj.is_open]

(* self.step_count += 1.  The counter is read only by the comparison with *)
(* max_steps, so it is held once it has reached max_steps.                 *)
NextStepCount(n) == IF n < max_steps THEN n + 1 ELSE n

(* gen_obs: the agent's direction and the tile it faces stand for the view. *)
GenObs(g, pos, d) == [image |-> g[FrontPos(pos, d)], direction |-> d]

(* MiniGridEnv.step(action) on the grid g, with the agent at pos facing d,  *)
(* holding held, after count steps: the state it leaves and the values it  *)
(* returns.                                                                *)
BaseStepOf(g, pos, d, held, count, action) ==
    LET fwd_pos == FrontPos(pos, d)
        fwd_cell == g[fwd_pos]
        moves == action = forward /\ (fwd_cell = None \/ CanOverlap(fwd_cell))
        picks == action = pickup /\ CanPickup(fwd_cell) /\ held = None
        drops == action = drop /\ fwd_cell = None /\ held # None
        atGoal == action = forward /\ fwd_cell.type = "goal"
        ndir == CASE action = left -> (d + 3) % 4
                  [] action = right -> (d + 1) % 4
                  [] OTHER -> d
        npos == IF moves THEN fwd_pos ELSE pos
        ngrid == CASE picks -> [g EXCEPT ![fwd_pos] = None]
                   [] drops -> [g EXCEPT ![fwd_pos] = held]
                   [] action = toggle ->
                        [g EXCEPT ![fwd_pos] = ToggleObj(fwd_cell, held)]
                   [] OTHER -> g
        ncount == NextStepCount(count)
    IN  [grid |-> ngrid,
         agent_pos |-> npos,
         agent_dir |-> ndir,
         carrying |-> CASE picks -> fwd_cell [] drops -> None [] OTHER -> held,
         step_count |-> ncount,
         obs |-> GenObs(ngrid, npos, ndir),
         reward |-> IF atGoal THEN RewardSuccess ELSE RewardZero,
         terminated |-> atGoal,
         truncated |-> ncount >= max_steps,
         info |-> EmptyInfo]

(* MiniGridEnv.step(action) on the environment's state. *)
BaseStep(action) ==
    BaseStepOf(grid, agent_pos, agent_dir, carrying, step_count, action)

-----------------------------------------------------------------------------
(* The milestone tracker of step *)

(* defaultdict(lambda: False): no position is mapped to True, and every    *)
(* position reads False.                                                   *)
NoAchievement == {}

(* reset without the assignment of a fresh map. *)
KeptAchievement(ua) == ua

(* self.unlocked_achievement = defaultdict(lambda: False) in reset: the    *)
(* old map ua is dropped.                                                  *)
ClearedAchievement(ua) == NoAchievement

(* self.unlocked_achievement[pos] *)
Unlocked(ua, pos) == pos \in ua

(* The key flag follows the cell: set while it is empty, unset otherwise. *)
KeyMilestoneLive(t, g, pos) ==
    IF t.raised THEN t
    ELSE IF g[pos] = None
         THEN [t EXCEPT !.reward = IF Unlocked(t.ua, pos) THEN @ ELSE RewardBonus,
                        !.ua = @ \cup {pos}]
         ELSE [t EXCEPT !.ua = @ \ {pos}]

(* The key loop without the test of the flag. *)
KeyMilestoneRepay(t, g, pos) ==
    IF ~t.raised /\ g[pos] = None
    THEN [t EXCEPT !.reward = RewardBonus, !.ua = @ \cup {pos}]
    ELSE t

(* The key loop without the assignment to reward. *)
KeyMilestoneNoReward(t, g, pos) ==
    IF ~t.raised /\ ~Unlocked(t.ua, pos) /\ g[pos] = None
    THEN [t EXCEPT !.ua = @ \cup {pos}]
    ELSE t

(* The key loop setting the flags of both keys at once. *)
KeyMilestoneBoth(t, g, pos) ==
    IF ~t.raised /\ ~Unlocked(t.ua, pos) /\ g[pos] = None
    THEN [t EXCEPT !.reward = RewardBonus,
                   !.ua = @ \cup {yellow_key_pos, red_key_pos}]
    ELSE t

(* One pass of the key loop: t carries the map, the reward and whether an  *)
(* exception was raised.                                                   *)
KeyMilestone(t, g, pos) ==
    IF ~t.raised /\ ~Unlocked(t.ua, pos) /\ g[pos] = None
    THEN [t EXCEPT !.reward = RewardBonus, !.ua = @ \cup {pos}]
    ELSE t

(* The door flag follows the door: unset again when it is shut. *)
DoorMilestoneLive(t, g, pos) ==
    IF t.raised THEN t
    ELSE IF g[pos].type # "door" THEN [t EXCEPT !.raised = TRUE]
    ELSE IF g[pos].is_open
         THEN [t EXCEPT !.reward = IF Unlocked(t.ua, pos) THEN @ ELSE RewardBonus,
                        !.ua = @ \cup {pos}]
         ELSE [t EXCEPT !.ua = @ \ {pos}]

(* The door loop without the test of the flag. *)
DoorMilestoneRepay(t, g, pos) ==
    IF t.raised THEN t
    ELSE IF g[pos].type # "door" THEN [t EXCEPT !.raised = TRUE]
    ELSE IF g[pos].is_open
         THEN [t EXCEPT !.reward = RewardBonus, !.ua = @ \cup {pos}]
         ELSE t

(* The door loop adding its 0.1 to the reward instead of overwriting it. *)
DoorMilestoneAdditive(t, g, pos) ==
    IF t.raised \/ Unlocked(t.ua, pos) THEN t
    ELSE IF g[pos].type # "door" THEN [t EXCEPT !.raised = TRUE]
    ELSE IF g[pos].is_open
         THEN [t EXCEPT !.reward.tenths = @ + 1, !.ua = @ \cup {pos}]
         ELSE t

(* One pass of the door loop.  Reading is_open of anything but a door     *)
(* raises AttributeError.                                                  *)
DoorMilestone(t, g, pos) ==
    IF t.raised \/ Unlocked(t.ua, pos) THEN t
    ELSE IF g[pos].type # "door" THEN [t EXCEPT !.raised = TRUE]
    ELSE IF g[pos].is_open
         THEN [t EXCEPT !.reward = RewardBonus, !.ua = @ \cup {pos}]
         ELSE t

(* The two loops starting from a reward of 0 instead of the framework's. *)
MilestonesFromZero(ua, reward, g) ==
    LET t0 == [ua |-> ua, reward |-> RewardZero, raised |-> FALSE]
        t1 == KeyMilestone(t0, g, yellow_key_pos)
        t2 == KeyMilestone(t1, g, red_key_pos)
        t3 == DoorMilestone(t2, g, first_yellow_door_pos)
    IN  DoorMilestone(t3, g, first_red_door_pos)

(* The two loops, in source order. *)
Milestones(ua, reward, g) ==
    LET t0 == [ua |-> ua, reward |-> reward, raised |-> FALSE]
        t1 == KeyMilestone(t0, g, yellow_key_pos)
        t2 == KeyMilestone(t1, g, red_key_pos)
        t3 == DoorMilestone(t2, g, first_yellow_door_pos)
    IN  DoorMilestone(t3, g, first_red_door_pos)

(* The order of the two milestone loops instead of the puzzle's order. *)
SkillOrderOfLoops ==
    <<yellow_key_pos, red_key_pos, first_yellow_door_pos, first_red_door_pos>>

(* The list the next-skill loop enumerates. *)
SkillOrder ==
    <<yellow_key_pos, first_yellow_door_pos, red_key_pos, first_red_door_pos>>

(* The loop reporting positions counted from 1. *)
FirstUnsetOneBased(ua, order) ==
    IF \E i \in 1 .. Len(order) : ~Unlocked(ua, order[i])
    THEN CHOOSE i \in 1 .. Len(order) :
             /\ ~Unlocked(ua, order[i])
             /\ \A j \in 1 .. i - 1 : Unlocked(ua, order[j])
    ELSE Len(order)

(* The index at which the loop breaks, or Len(order) when it never does. *)
FirstUnset(ua, order) ==
    IF \E i \in 1 .. Len(order) : ~Unlocked(ua, order[i])
    THEN (CHOOSE i \in 1 .. Len(order) :
             /\ ~Unlocked(ua, order[i])
             /\ \A j \in 1 .. i - 1 : Unlocked(ua, order[j])) - 1
    ELSE Len(order)

(* info["next_skill"] = idx in the loop; the fallback when the key is absent. *)
NextSkill(info, ua, order) ==
    LET looped == IF FirstUnset(ua, order) < Len(order)
                  THEN [k \in DOMAIN info \cup {"next_skill"} |->
                          IF k = "next_skill" THEN FirstUnset(ua, order) ELSE info[k]]
                  ELSE info
    IN  IF "next_skill" \notin DOMAIN looped
        THEN [k \in DOMAIN looped \cup {"next_skill"} |->
                IF k = "next_skill" THEN Len(order) ELSE looped[k]]
        ELSE looped

-----------------------------------------------------------------------------
(* The environment *)

(* __init__: an empty grid, no agent, an empty achievement map. *)
Init ==
    /\ grid = EmptyGrid
    /\ agent_pos = NoPos
    /\ agent_dir = -1
    /\ carrying = None
    /\ step_count = 0
    /\ unlocked_achievement = NoAchievement
    /\ yellow_key_pos = NoPos
    /\ red_key_pos = NoPos
    /\ first_yellow_door_pos = NoPos
    /\ first_red_door_pos = NoPos
    /\ last_call = "init"
    /\ base = NoReturn
    /\ ret = NoReturn

(* reset: the map is replaced by a fresh one, then MiniGridEnv.reset builds *)
(* the grid with _gen_grid and clears carrying and step_count.  What step   *)
(* last returned is left as it is.                                          *)
Reset ==
    /\ unlocked_achievement' = ClearedAchievement(unlocked_achievement)
    /\ \E l \in Layouts :
          /\ grid' = l.grid
          /\ agent_pos' = l.agent_pos
          /\ agent_dir' = l.agent_dir
          /\ first_yellow_door_pos' = l.first_yellow_door_pos
          /\ first_red_door_pos' = l.first_red_door_pos
          /\ yellow_key_pos' = l.yellow_key_pos
          /\ red_key_pos' = l.red_key_pos
    /\ carrying' = None
    /\ step_count' = 0
    /\ last_call' = "reset"
    /\ UNCHANGED <<base, ret>>

(* step(action) *)
Step(action) ==
    /\ last_call # "init"
    /\ \E b \in {BaseStep(action)} :
       \E t \in {Milestones(unlocked_achievement, b.reward, b.grid)} :
           /\ grid' = b.grid
           /\ agent_pos' = b.agent_pos
           /\ agent_dir' = b.agent_dir
           /\ carrying' = b.carrying
           /\ step_count' = b.step_count
           /\ unlocked_achievement' = t.ua
           /\ base' = [obs |-> b.obs, reward |-> b.reward,
                       terminated |-> b.terminated, truncated |-> b.truncated,
                       info |-> b.info]
           /\ IF t.raised
              THEN /\ last_call' = "raised"
                   /\ ret' = ret
              ELSE /\ last_call' = "step"
                   /\ ret' = [obs |-> b.obs, reward |-> t.reward,
                              terminated |-> b.terminated,
                              truncated |-> b.truncated,
                              info |-> NextSkill(b.info, t.ua, SkillOrder)]
    /\ UNCHANGED <<yellow_key_pos, red_key_pos,
                   first_yellow_door_pos, first_red_door_pos>>

Next ==
    \/ Reset
    \/ \E action \in Actions : Step(action)

Spec == Init /\ [][Next]_vars

-----------------------------------------------------------------------------
(* The environment under a test that edits the grid between steps.  No     *)
(* action of the agent changes two cells in one step, so a test of two     *)
(* milestones completing on one step resets the environment, prepares the  *)
(* grid through the grid's own interface and then steps.                   *)

(* The action such a test steps with: the agent does nothing. *)
TestActions == {done}

(* self.grid.set(x, y, None) on a key's spawn cell. *)
GridClear(p) ==
    /\ last_call # "init"
    /\ p \in {yellow_key_pos, red_key_pos}
    /\ grid[p] # None
    /\ grid' = PutObj(grid, None, p[1], p[2])
    /\ last_call' = "edit"
    /\ UNCHANGED <<agent_pos, agent_dir, carrying, step_count,
                   unlocked_achievement, yellow_key_pos, red_key_pos,
                   first_yellow_door_pos, first_red_door_pos, base, ret>>

(* self.grid.get(x, y).is_open = True on a tracked door. *)
DoorOpen(p) ==
    /\ last_call # "init"
    /\ p \in {first_yellow_door_pos, first_red_door_pos}
    /\ ~grid[p].is_open
    /\ grid' = [grid EXCEPT ![p].is_open = TRUE]
    /\ last_call' = "edit"
    /\ UNCHANGED <<agent_pos, agent_dir, carrying, step_count,
                   unlocked_achievement, yellow_key_pos, red_key_pos,
                   first_yellow_door_pos, first_red_door_pos, base, ret>>

(* The test resets the environment it has constructed, once. *)
TestReset ==
    /\ last_call = "init"
    /\ Reset

NextTest ==
    \/ TestReset
    \/ \E action \in TestActions : Step(action)
    \/ \E p \in Cells : GridClear(p)
    \/ \E p \in Cells : DoorOpen(p)

SpecTest == Init /\ [][NextTest]_vars

-----------------------------------------------------------------------------
(* The layout generator over a range of grid sizes: an environment is       *)
(* constructed with some width and height and reset.  A reset returns, or   *)
(* raises the AssertionError of _gen_grid ("reset_assert") or the           *)
(* ValueError of _rand_int on an empty range ("reset_value"), or never      *)
(* returns because place_obj finds no free cell ("reset_hang").             *)

(* The largest width and height an environment is constructed with. *)
MaxWidth == 10

MaxHeight == 6

Widths == 6 .. MaxWidth

Heights == 3 .. MaxHeight

(* The grid when the assertion on the width runs, after the walls. *)
GenAssertedAfterWalls(w, h) == GenWalls(w, h)

(* The grid when the assertion on the width runs: the border and the goal  *)
(* are in place, nothing else.                                             *)
GenAsserted(w, h) == GenBorder(w, h)

(* The cells and directions place_agent can choose. *)
AgentDraws(w, h) ==
    [apos : PlaceCells(GenWalls(w, h), splitIdx(w), h, NoPos), adir : 0 .. 3]

(* The draws after which place_obj finds no free cell for a key: for the   *)
(* yellow key (ykpos is NoPos, no key is placed) or for the red key.       *)
KeyHangs(w, h) ==
    {d \in [apos : Region(splitIdx(w), h), adir : 0 .. 3, doorIdx : DoorRows(h),
            ykpos : Region(splitIdx(w), h) \cup {NoPos}] :
        /\ d.apos \in PlaceCells(GenWalls(w, h), splitIdx(w), h, NoPos)
        /\ IF d.ykpos = NoPos
           THEN PlaceCells(GenDoors(GenWalls(w, h), w, d.doorIdx),
                           splitIdx(w), h, d.apos) = {}
           ELSE /\ d.ykpos \in PlaceCells(GenDoors(GenWalls(w, h), w, d.doorIdx),
                                          splitIdx(w), h, d.apos)
                /\ PlaceCells(GenYellowKey(w, h, d.doorIdx, d.ykpos),
                              splitIdx(w), h, d.apos) = {}}

(* An environment of any of the sizes, constructed. *)
InitSized ==
    /\ \E w \in Widths, h \in Heights : grid = Grid(w, h)
    /\ agent_pos = NoPos
    /\ agent_dir = -1
    /\ carrying = None
    /\ step_count = 0
    /\ unlocked_achievement = NoAchievement
    /\ yellow_key_pos = NoPos
    /\ red_key_pos = NoPos
    /\ first_yellow_door_pos = NoPos
    /\ first_red_door_pos = NoPos
    /\ last_call = "init"
    /\ base = NoReturn
    /\ ret = NoReturn

(* reset of an environment of width w and height h: the map is replaced,   *)
(* MiniGridEnv.reset forgets the agent's position and direction and calls  *)
(* _gen_grid(w, h); carrying and step_count are cleared once it returned.  *)
(* The caller resets a new environment, and again after a reset that       *)
(* raised.                                                                 *)
ResetSized(w, h) ==
    /\ last_call \in {"init", "reset_assert", "reset_value"}
    /\ unlocked_achievement' = ClearedAchievement(unlocked_achievement)
    /\ UNCHANGED <<base, ret>>
    /\ \/ /\ w % 2 # 0
          /\ grid' = GenAsserted(w, h)
          /\ agent_pos' = NoPos
          /\ agent_dir' = -1
          /\ last_call' = "reset_assert"
          /\ UNCHANGED <<carrying, step_count, yellow_key_pos, red_key_pos,
                         first_yellow_door_pos, first_red_door_pos>>
       \/ /\ w % 2 = 0
          /\ AgentDraws(w, h) = {}
          /\ grid' = GenWalls(w, h)
          /\ agent_pos' = NoPos
          /\ agent_dir' = -1
          /\ last_call' = "reset_hang"
          /\ UNCHANGED <<carrying, step_count, yellow_key_pos, red_key_pos,
                         first_yellow_door_pos, first_red_door_pos>>
       \/ /\ w % 2 = 0
          /\ DoorRows(h) = {}
          /\ \E a \in AgentDraws(w, h) :
                /\ agent_pos' = a.apos
                /\ agent_dir' = a.adir
          /\ grid' = GenWalls(w, h)
          /\ last_call' = "reset_value"
          /\ UNCHANGED <<carrying, step_count, yellow_key_pos, red_key_pos,
                         first_yellow_door_pos, first_red_door_pos>>
       \/ /\ w % 2 = 0
          /\ \E d \in KeyHangs(w, h) :
                /\ agent_pos' = d.apos
                /\ agent_dir' = d.adir
                /\ first_yellow_door_pos' = FirstYellowDoorPos(w, d.doorIdx)
                /\ first_red_door_pos' = FirstRedDoorPos(w, d.doorIdx)
                /\ IF d.ykpos = NoPos
                   THEN /\ grid' = GenDoors(GenWalls(w, h), w, d.doorIdx)
                        /\ yellow_key_pos' = yellow_key_pos
                   ELSE /\ grid' = GenYellowKey(w, h, d.doorIdx, d.ykpos)
                        /\ yellow_key_pos' = d.ykpos
          /\ last_call' = "reset_hang"
          /\ UNCHANGED <<carrying, step_count, red_key_pos>>
       \/ /\ \E l \in GenGrid(w, h) :
                /\ grid' = l.grid
                /\ agent_pos' = l.agent_pos
                /\ agent_dir' = l.agent_dir
                /\ first_yellow_door_pos' = l.first_yellow_door_pos
                /\ first_red_door_pos' = l.first_red_door_pos
                /\ yellow_key_pos' = l.yellow_key_pos
                /\ red_key_pos' = l.red_key_pos
          /\ carrying' = None
          /\ step_count' = 0
          /\ last_call' = "reset"

NextSized == ResetSized(GridWidth(grid), GridHeight(grid))

SpecSized == InitSized /\ [][NextSized]_vars

-----------------------------------------------------------------------------
(* Properties *)

(* The four cached milestone positions. *)
MilestonePositions ==
    {yellow_key_pos, red_key_pos, first_yellow_door_pos, first_red_door_pos}

(* The condition the tracker tests for the milestone at p on grid g. *)
MilestoneHolds(g, p) ==
    IF p \in {yellow_key_pos, red_key_pos}
    THEN g[p] = None
    ELSE g[p].type = "door" /\ g[p].is_open

(* No milestone with an unset flag holds on the grid. *)
UnsetNotHolding ==
    \A p \in MilestonePositions :
        ~Unlocked(unlocked_achievement, p) => ~MilestoneHolds(grid, p)

(* r is a return of step that carries next_skill. *)
HasNextSkill(r) == "next_skill" \in DOMAIN r.info

(* C1: in an episode, info["next_skill"] returned by step is one of 0..4 and *)
(* is never smaller than the value the previous step of the episode returned. *)
C1_NextSkillMonotone ==
    [][last_call' = "step" =>
          /\ HasNextSkill(ret')
          /\ ret'.info["next_skill"] \in 0 .. 4
          /\ (last_call = "step" =>
                ret'.info["next_skill"] >= ret.info["next_skill"])]_vars

(* A step that returns next_skill = 4: the value has risen through the episode. *)
C1_Witness ==
    /\ last_call = "step"
    /\ HasNextSkill(ret)
    /\ ret.info["next_skill"] = 4

(* C2: a milestone's 0.1 is paid on the step in which its condition first    *)
(* holds and on no later step of the episode: a step pays 0.1 when some      *)
(* milestone with an unset flag holds on the new grid, pays none when every  *)
(* milestone that holds has its flag set already, and after every call an    *)
(* unset flag means the condition does not hold (so it has not held before). *)
C2_BonusOnce ==
    [][/\ last_call' \in {"reset", "step"} => UnsetNotHolding'
       /\ last_call' = "step" =>
            /\ (\E p \in MilestonePositions :
                    ~Unlocked(unlocked_achievement, p) /\ MilestoneHolds(grid', p))
                 => ret'.reward = RewardBonus
            /\ (\A p \in MilestonePositions :
                    MilestoneHolds(grid', p) => Unlocked(unlocked_achievement, p))
                 => ret'.reward # RewardBonus]_vars

(* The conditions persist and nothing is paid: the first yellow door is open *)
(* and the yellow key's spawn cell empty, both flags set, reward 0.          *)
C2_Witness ==
    /\ last_call = "step"
    /\ Unlocked(unlocked_achievement, yellow_key_pos)
    /\ grid[yellow_key_pos] = None
    /\ Unlocked(unlocked_achievement, first_yellow_door_pos)
    /\ grid[first_yellow_door_pos].is_open
    /\ ret.reward = RewardZero

(* C3: a flag that is set stays set through every step; only reset unsets. *)
C3_FlagsMonotone ==
    [][last_call' # "reset" =>
          unlocked_achievement \subseteq unlocked_achievement']_vars

(* The yellow key lies on its spawn cell again and the first yellow door is *)
(* shut again, and both flags are still set.                                *)
C3_Witness ==
    /\ last_call = "step"
    /\ Unlocked(unlocked_achievement, yellow_key_pos)
    /\ grid[yellow_key_pos] = Key("yellow")
    /\ Unlocked(unlocked_achievement, first_yellow_door_pos)
    /\ ~grid[first_yellow_door_pos].is_open

(* C4: after every reset no position of the grid has its flag set. *)
C4_ResetClears ==
    last_call = "reset" =>
        \A p \in Cells : ~Unlocked(unlocked_achievement, p)

(* A reset that follows an episode whose last step reported all four flags. *)
C4_Witness ==
    /\ last_call = "reset"
    /\ HasNextSkill(ret)
    /\ ret.info["next_skill"] = 4
    /\ unlocked_achievement = {}

(* C5: after the flag updates of a step, next_skill is the index of the first *)
(* unset flag in the order yellow key, first yellow door, red key, first red  *)
(* door, it is 4 exactly when all four are set, and the key is in info.       *)
C5_NextSkillFirstUnset ==
    last_call = "step" =>
        /\ HasNextSkill(ret)
        /\ ret.info["next_skill"] =
             (IF ~Unlocked(unlocked_achievement, yellow_key_pos) THEN 0
              ELSE IF ~Unlocked(unlocked_achievement, first_yellow_door_pos) THEN 1
              ELSE IF ~Unlocked(unlocked_achievement, red_key_pos) THEN 2
              ELSE IF ~Unlocked(unlocked_achievement, first_red_door_pos) THEN 3
              ELSE 4)
        /\ (ret.info["next_skill"] = 4 <=>
              MilestonePositions \subseteq unlocked_achievement)

(* Both key flags set before the first yellow door's: the index is 1, not 2. *)
C5_Witness ==
    /\ last_call = "step"
    /\ unlocked_achievement = {yellow_key_pos, red_key_pos}
    /\ HasNextSkill(ret)
    /\ ret.info["next_skill"] = 1

(* C6: in a step, on the grid the framework leaves, a key flag becomes set *)
(* iff it was unset and the key's spawn cell is empty, a door flag becomes   *)
(* set iff it was unset and the door at its position is open, and the        *)
(* returned reward is the 0.1 iff some flag became set in the step.          *)
C6_FlagSetIffCondition ==
    [][last_call' = "step" =>
          /\ \A p \in {yellow_key_pos, red_key_pos} :
                (~Unlocked(unlocked_achievement, p)
                    /\ Unlocked(unlocked_achievement', p))
                <=> (~Unlocked(unlocked_achievement, p) /\ grid'[p] = None)
          /\ \A p \in {first_yellow_door_pos, first_red_door_pos} :
                (~Unlocked(unlocked_achievement, p)
                    /\ Unlocked(unlocked_achievement', p))
                <=> (/\ ~Unlocked(unlocked_achievement, p)
                     /\ grid'[p].type = "door"
                     /\ grid'[p].is_open)
          /\ ret'.reward = RewardBonus
                <=> \E p \in MilestonePositions :
                       /\ ~Unlocked(unlocked_achievement, p)
                       /\ Unlocked(unlocked_achievement', p)]_vars

(* The step that opens the first red door: 0.1 is returned, the door is open *)
(* and the last flag is set.                                                 *)
C6_Witness ==
    /\ last_call = "step"
    /\ ret.reward = RewardBonus
    /\ MilestonePositions \subseteq unlocked_achievement
    /\ grid[first_red_door_pos].is_open
    /\ FrontPos(agent_pos, agent_dir) = first_red_door_pos

(* C7: step returns the framework's observation, terminated and truncated    *)
(* unchanged, returns the framework's reward unchanged when no flag is newly *)
(* set, and the four cached positions change in no call but reset.           *)
C7_PassThrough ==
    [][/\ last_call' = "step" =>
            /\ ret'.obs = base'.obs
            /\ ret'.terminated = base'.terminated
            /\ ret'.truncated = base'.truncated
            /\ unlocked_achievement' = unlocked_achievement
                 => ret'.reward = base'.reward
       /\ last_call' # "reset" =>
            /\ yellow_key_pos' = yellow_key_pos
            /\ red_key_pos' = red_key_pos
            /\ first_yellow_door_pos' = first_yellow_door_pos
            /\ first_red_door_pos' = first_red_door_pos]_vars

(* A truncated step with the keys moved: the red key lies on the yellow     *)
(* key's spawn cell, and the framework's reward is returned.                *)
C7_Witness ==
    /\ last_call = "step"
    /\ ret.truncated
    /\ base.truncated
    /\ ret.reward = base.reward
    /\ grid[yellow_key_pos] = Key("red")

(* C8: a step that reaches the goal with all four flags set beforehand      *)
(* returns the framework's success reward, terminated and next_skill = 4.   *)
C8_GoalAfterMilestones ==
    [][(/\ last_call' = "step"
        /\ base'.terminated
        /\ MilestonePositions \subseteq unlocked_achievement)
          => /\ ret'.reward = RewardSuccess
             /\ ret'.terminated
             /\ HasNextSkill(ret')
             /\ ret'.info["next_skill"] = 4]_vars

(* The agent has stepped on the goal with the four flags set. *)
C8_Witness ==
    /\ last_call = "step"
    /\ agent_pos = <<width - 2, height - 2>>
    /\ ret.terminated
    /\ ret.reward = RewardSuccess
    /\ MilestonePositions \subseteq unlocked_achievement

(* C9: the step that takes the yellow key from its spawn cell with no flag  *)
(* set returns 0.1 and next_skill = 1; next_skill is 0 on every step while   *)
(* the yellow-key flag is unset, and 1 on every step from the pickup until   *)
(* the first-yellow-door flag is set.                                        *)
C9_YellowKeyPickup ==
    [][last_call' = "step" =>
          /\ HasNextSkill(ret')
          /\ (/\ unlocked_achievement = {}
              /\ grid[yellow_key_pos] = Key("yellow")
              /\ grid'[yellow_key_pos] = None)
               => /\ ret'.reward = RewardBonus
                  /\ ret'.info["next_skill"] = 1
          /\ ~Unlocked(unlocked_achievement', yellow_key_pos)
               => ret'.info["next_skill"] = 0
          /\ (/\ Unlocked(unlocked_achievement', yellow_key_pos)
              /\ ~Unlocked(unlocked_achievement', first_yellow_door_pos))
               => ret'.info["next_skill"] = 1]_vars

(* The pickup step itself: the agent holds the yellow key, only its flag is *)
(* set, and 0.1 and next_skill = 1 are returned.                            *)
C9_Witness ==
    /\ last_call = "step"
    /\ carrying = Key("yellow")
    /\ unlocked_achievement = {yellow_key_pos}
    /\ ret.reward = RewardBonus
    /\ HasNextSkill(ret)
    /\ ret.info["next_skill"] = 1

(* C10: the milestones never contribute more than one 0.1 to a step: the    *)
(* returned reward is the framework's or the 0.1, every milestone that holds *)
(* on the new grid has its flag set after the step, and a step that sets two *)
(* or more flags returns the one 0.1.                                        *)
C10_BonusNotAdditive ==
    [][last_call' = "step" =>
          /\ ret'.reward \in {base'.reward, RewardBonus}
          /\ \A p \in MilestonePositions :
                MilestoneHolds(grid', p) => Unlocked(unlocked_achievement', p)
          /\ Cardinality(unlocked_achievement' \ unlocked_achievement) >= 2
                => ret'.reward = RewardBonus]_vars

(* The first step of an episode finds the yellow key's spawn cell empty and *)
(* the first yellow door open: both flags are set by it and 0.1 is returned. *)
C10_Witness ==
    /\ last_call = "step"
    /\ step_count = 1
    /\ unlocked_achievement = {yellow_key_pos, first_yellow_door_pos}
    /\ ret.reward = RewardBonus

-----------------------------------------------------------------------------
(* Properties of the layout generator *)

(* The number of cells of g holding an object of type t (and colour c). *)
CountType(g, t) == Cardinality({c \in DOMAIN g : g[c].type = t})

CountColour(g, t, col) ==
    Cardinality({c \in DOMAIN g : g[c].type = t /\ g[c].color = col})

(* The cells of the outer rectangle of g. *)
BorderCells(g) ==
    {c \in DOMAIN g : \/ c[1] \in {0, GridWidth(g) - 1}
                      \/ c[2] \in {0, GridHeight(g) - 1}}

(* reset has been called on the environment. *)
ResetCalled ==
    last_call \in {"reset", "reset_assert", "reset_value", "reset_hang"}

(* The grid holds what a generated layout is said to hold. *)
GeneratedObjects ==
    /\ CountType(grid, "goal") = 1
    /\ grid[<<GridWidth(grid) - 2, GridHeight(grid) - 2>>] = Goal
    /\ CountType(grid, "key") = 2
    /\ CountColour(grid, "key", "yellow") = 1
    /\ CountColour(grid, "key", "red") = 1
    /\ CountType(grid, "door") = 4
    /\ CountColour(grid, "door", "yellow") = 3
    /\ CountColour(grid, "door", "red") = 1
    /\ \A c \in BorderCells(grid) : grid[c] = Wall

(* C11 as stated: for every even width W >= 8 and height H >= 3, _gen_grid  *)
(* completes and leaves one goal at (W-2, H-2), a yellow and a red key,      *)
(* three yellow doors and a red one, and wall on every border cell.          *)
C11_Original ==
    (/\ ResetCalled
     /\ GridWidth(grid) % 2 = 0
     /\ GridWidth(grid) >= 8
     /\ GridHeight(grid) >= 3)
      => /\ last_call = "reset"
         /\ GeneratedObjects

(* The sizes for which the generator has a door row and three free cells   *)
(* in the left region.                                                     *)
C11_Sizes ==
    /\ GridWidth(grid) % 2 = 0
    /\ GridWidth(grid) >= 8
    /\ \/ GridHeight(grid) >= 5
       \/ GridHeight(grid) = 4 /\ GridWidth(grid) >= 10

(* C11, amended: for every even width W >= 8 and height H >= 5, and for     *)
(* H = 4 when W >= 10, _gen_grid can complete, every reset returns, and the  *)
(* grid holds one goal at (W-2, H-2), a yellow and a red key, three yellow   *)
(* doors and a red one, and wall on every border cell.                       *)
C11_GeneratedObjects ==
    /\ (last_call = "init" /\ C11_Sizes)
         => GenGrid(GridWidth(grid), GridHeight(grid)) # {}
    /\ (ResetCalled /\ C11_Sizes)
         => /\ last_call = "reset"
            /\ GeneratedObjects

(* A layout of the smallest size the amended claim covers at height 4. *)
C11_Witness ==
    /\ last_call = "reset"
    /\ GridWidth(grid) = 10
    /\ GridHeight(grid) = 4
    /\ GeneratedObjects

(* C12: in every generated layout, with splitIdx = 2 + (W-8)/2 (2, 4 and 6   *)
(* for W = 8, 12 and 16), the door row is in [1, H-3], its cells in columns  *)
(* splitIdx .. splitIdx+3 hold locked, shut doors coloured yellow, yellow,   *)
(* red, yellow, every other cell of these columns is wall, and the cached    *)
(* door positions are (splitIdx, doorIdx) and (splitIdx+2, doorIdx).         *)
C12_DoorRow ==
    /\ splitIdx(8) = 2 /\ splitIdx(12) = 4 /\ splitIdx(16) = 6
    /\ last_call = "reset" =>
         \E doorIdx \in 1 .. GridHeight(grid) - 3 :
            \E s \in {2 + (GridWidth(grid) - 8) \div 2} :
               /\ s = splitIdx(GridWidth(grid))
               /\ grid[<<s, doorIdx>>] = Door("yellow", TRUE)
               /\ grid[<<s + 1, doorIdx>>] = Door("yellow", TRUE)
               /\ grid[<<s + 2, doorIdx>>] = Door("red", TRUE)
               /\ grid[<<s + 3, doorIdx>>] = Door("yellow", TRUE)
               /\ \A c \in DOMAIN grid :
                     (c[1] \in s .. s + 3 /\ c[2] # doorIdx) => grid[c] = Wall
               /\ first_yellow_door_pos = <<s, doorIdx>>
               /\ first_red_door_pos = <<s + 2, doorIdx>>

(* A layout of width 10 with the doors in the lowest row they can take. *)
C12_Witness ==
    /\ last_call = "reset"
    /\ GridWidth(grid) = 10
    /\ first_yellow_door_pos = <<3, GridHeight(grid) - 3>>
    /\ GridHeight(grid) >= 6

(* C13: in every generated layout the agent's cell and the two keys' cells  *)
(* are pairwise distinct cells left of the wall columns that hold no wall,   *)
(* the keys lie on their cached cells, and the four cached milestone         *)
(* positions are pairwise distinct.                                          *)
C13_DistinctPositions ==
    last_call = "reset" =>
        /\ Cardinality({agent_pos, yellow_key_pos, red_key_pos}) = 3
        /\ \A p \in {agent_pos, yellow_key_pos, red_key_pos} :
              /\ p \in DOMAIN grid
              /\ p[1] < splitIdx(GridWidth(grid))
              /\ grid[p] # Wall
        /\ grid[agent_pos] = None
        /\ grid[yellow_key_pos] = Key("yellow")
        /\ grid[red_key_pos] = Key("red")
        /\ Cardinality({yellow_key_pos, red_key_pos,
                        first_yellow_door_pos, first_red_door_pos}) = 4

(* The agent and the two keys fill the one-column left region of an 8 x 5  *)
(* grid.                                                                   *)
C13_Witness ==
    /\ last_call = "reset"
    /\ GridWidth(grid) = 8
    /\ agent_pos = <<1, 2>>
    /\ yellow_key_pos = <<1, 1>>
    /\ red_key_pos = <<1, 3>>

(* C14: with an odd width the reset raises the AssertionError of _gen_grid: *)
(* the grid holds the border and the goal and nothing else (no interior     *)
(* wall, door or key), the agent is not placed, no milestone position is     *)
(* cached, and the grid is the one a single run of _gen_grid leaves.         *)
C14_OddWidthAsserts ==
    (ResetCalled /\ GridWidth(grid) % 2 # 0) =>
        /\ last_call = "reset_assert"
        /\ \A c \in DOMAIN grid \ BorderCells(grid) :
              grid[c] = IF c = <<GridWidth(grid) - 2, GridHeight(grid) - 2>>
                        THEN Goal ELSE None
        /\ \A c \in BorderCells(grid) : grid[c] = Wall
        /\ agent_pos = NoPos
        /\ agent_dir = -1
        /\ yellow_key_pos = NoPos
        /\ red_key_pos = NoPos
        /\ first_yellow_door_pos = NoPos
        /\ first_red_door_pos = NoPos

(* A reset of an environment of width 9 has raised. *)
C14_Witness ==
    /\ last_call = "reset_assert"
    /\ GridWidth(grid) = 9
    /\ grid[<<7, GridHeight(grid) - 2>>] = Goal
    /\ agent_pos = NoPos

-----------------------------------------------------------------------------
(* Properties of an episode: doors, order of the flags, the goal *)

(* The second yellow door and the fourth door of the door row. *)
SecondDoorPos == <<first_yellow_door_pos[1] + 1, first_yellow_door_pos[2]>>

FourthDoorPos == <<first_yellow_door_pos[1] + 3, first_yellow_door_pos[2]>>

(* The goal's cell. *)
GoalPos == <<width - 2, height - 2>>

(* C15: a step that opens or closes the second yellow door or the fourth    *)
(* door sets no flag, does not return the 0.1, and returns the next_skill    *)
(* the previous step returned.                                               *)
C15_UntrackedDoors ==
    [][(/\ last_call' = "step"
        /\ \E p \in {SecondDoorPos, FourthDoorPos} :
              grid'[p].is_open # grid[p].is_open)
          => /\ unlocked_achievement' = unlocked_achievement
             /\ ret'.reward # RewardBonus
             /\ last_call = "step"
             /\ ret'.info["next_skill"] = ret.info["next_skill"]]_vars

(* The agent stands in the red door's cell facing the fourth door, which is *)
(* open, and the step returned no bonus.                                    *)
C15_Witness ==
    /\ last_call = "step"
    /\ agent_pos = first_red_door_pos
    /\ FrontPos(agent_pos, agent_dir) = FourthDoorPos
    /\ grid[FourthDoorPos].is_open
    /\ ret.reward = RewardZero
    /\ grid[SecondDoorPos].is_open

(* C16: once the environment is reset, the cells at first_yellow_door_pos   *)
(* and first_red_door_pos hold a yellow and a red door in every state, and   *)
(* no step raises from the door check.                                       *)
C16_DoorsStay ==
    last_call # "init" =>
        /\ grid[first_yellow_door_pos].type = "door"
        /\ grid[first_yellow_door_pos].color = "yellow"
        /\ grid[first_red_door_pos].type = "door"
        /\ grid[first_red_door_pos].color = "red"
        /\ last_call # "raised"

(* The agent stands in the open first yellow door's cell and carries a key: *)
(* the cell still holds the door.                                           *)
C16_Witness ==
    /\ last_call = "step"
    /\ agent_pos = first_yellow_door_pos
    /\ carrying = Key("red")
    /\ grid[first_yellow_door_pos].type = "door"

(* C17: on every step that ends on the goal, the four flags were set before *)
(* the step, no flag is set by it, next_skill is 4 and the framework's       *)
(* success reward is returned.                                               *)
C17_GoalNeedsAllFlags ==
    [][(last_call' = "step" /\ ret'.terminated)
          => /\ MilestonePositions \subseteq unlocked_achievement
             /\ unlocked_achievement' = unlocked_achievement
             /\ ret'.info["next_skill"] = 4
             /\ ret'.reward = RewardSuccess]_vars

(* The agent has stepped on the goal carrying the yellow key that opened    *)
(* the fourth door.                                                         *)
C17_Witness ==
    /\ last_call = "step"
    /\ ret.terminated
    /\ agent_pos = GoalPos
    /\ carrying = Key("yellow")
    /\ grid[FourthDoorPos].is_open
    /\ ret.info["next_skill"] = 4

(* C18: the first-yellow-door flag is set only if the yellow-key flag is,   *)
(* the first-red-door flag only if the red-key flag and the first-yellow-    *)
(* door flag are; the first-red-door flag is set exactly when the red door   *)
(* has been opened (it is no longer locked), and a step returns              *)
(* next_skill = 4 exactly when that flag is set.                             *)
C18_FlagOrder ==
    last_call # "init" =>
        /\ Unlocked(unlocked_achievement, first_yellow_door_pos)
             => Unlocked(unlocked_achievement, yellow_key_pos)
        /\ Unlocked(unlocked_achievement, first_red_door_pos)
             => /\ Unlocked(unlocked_achievement, red_key_pos)
                /\ Unlocked(unlocked_achievement, first_yellow_door_pos)
        /\ Unlocked(unlocked_achievement, first_red_door_pos)
             <=> ~grid[first_red_door_pos].is_locked
        /\ last_call = "step" =>
             (ret.info["next_skill"] = 4
                <=> Unlocked(unlocked_achievement, first_red_door_pos))

(* The red key's flag was set before the first yellow door's: the step that *)
(* opens the door returns the 0.1 and next_skill goes from 1 to 3.           *)
C18_Witness ==
    /\ last_call = "step"
    /\ unlocked_achievement =
         {yellow_key_pos, red_key_pos, first_yellow_door_pos}
    /\ carrying = Key("yellow")
    /\ FrontPos(agent_pos, agent_dir) = first_yellow_door_pos
    /\ ret.reward = RewardBonus
    /\ ret.info["next_skill"] = 3

(* C19: a step sets at most one flag. *)
C19_OneFlagPerStep ==
    [][last_call' = "step" =>
          Cardinality(unlocked_achievement' \ unlocked_achievement) <= 1]_vars

(* The red key is taken first: the step sets its flag alone and returns 0.1. *)
C19_Witness ==
    /\ last_call = "step"
    /\ unlocked_achievement = {red_key_pos}
    /\ carrying = Key("red")
    /\ grid[yellow_key_pos] = Key("yellow")
    /\ ret.reward = RewardBonus

-----------------------------------------------------------------------------
(* Reaching the goal *)

(* What the agent's actions work on: the grid, the agent and what it holds. *)
Situation(g, pos, d, held) ==
    [grid |-> g, agent_pos |-> pos, agent_dir |-> d, carrying |-> held]

(* The situations one action leads to from s. *)
Successors(s) ==
    {Situation(b.grid, b.agent_pos, b.agent_dir, b.carrying) :
        b \in {BaseStepOf(s.grid, s.agent_pos, s.agent_dir, s.carrying, 0, a) :
                  a \in Actions}}

(* Some sequence of actions from a situation of frontier, through          *)
(* situations not in seen, puts the agent on the goal.                     *)
RECURSIVE ReachesGoal(_, _)
ReachesGoal(seen, frontier) ==
    IF \E s \in frontier : s.agent_pos = GoalPos THEN TRUE
    ELSE IF frontier = {} THEN FALSE
    ELSE \E new \in {UNION {Successors(s) : s \in frontier} \ seen} :
            ReachesGoal(seen \cup new, new)

(* Some sequence of actions from the environment's state reaches the goal. *)
GoalReachable ==
    \E s \in {Situation(grid, agent_pos, agent_dir, carrying)} :
        ReachesGoal({s}, {s})

(* C20 as stated: from every generated layout of the smallest width, where  *)
(* the left region is the single column x = 1, some sequence of turn,        *)
(* forward, pickup, drop and toggle actions reaches the goal.                *)
C20_Original ==
    last_call = "reset" => GoalReachable

(* In an episode whose door row is row 1 the agent is never on the goal;    *)
(* from every layout whose door row is below row 1 the goal can be reached. *)
C20_DoorRowOne ==
    /\ (last_call # "init" /\ first_yellow_door_pos[2] = 1)
         => agent_pos # GoalPos
    /\ (last_call = "reset" /\ ret = NoReturn /\ first_yellow_door_pos[2] > 1)
         => GoalReachable

=============================================================================
